---- MODULE Spec2Model ----
(***************************************************************************)
(* Model of the consumption ledger (back-end/src/GlobalConsumption.py),    *)
(* of its persistent store (back-end/src/RedisClient.py) and of the        *)
(* simulation session of back-end/src/main.py.                             *)
(*                                                                         *)
(* Conventions.  A Python float is modelled by an integer.  A Python str   *)
(* is a sequence of one-character strings, so that str(), join(), split()  *)
(* and float() are computed and not assumed; a unit name is one symbol.    *)
(* A value returned by RedisClient.get is None or Str(s).                  *)
(***************************************************************************)
EXTENDS Integers, Sequences, FiniteSets, TLC

\* ------------------------------------------------------------------------
\* Bounds of the model
\* ------------------------------------------------------------------------
\* number of requests and restarts after the first construction
MaxOps == 2

\* ------------------------------------------------------------------------
\* Program constants
\* ------------------------------------------------------------------------
\* the slice [-10:] of _load_from_redis
HistoryMax == 10

\* DefaultValues.separator
separator == "|"

\* DefaultValues.energy_used / DefaultValues.co2_emissions
default_energy_used == 0
default_co2_emissions == 0

\* ------------------------------------------------------------------------
\* Strings
\* ------------------------------------------------------------------------
Digits == <<"0", "1", "2", "3", "4", "5", "6", "7", "8", "9">>

IsDigit(c) == \E i \in 1..10 : Digits[i] = c

DigitValue(c) == (CHOOSE i \in 1..10 : Digits[i] = c) - 1

RECURSIVE NatToStr(_)
NatToStr(n) ==
    IF n < 10 THEN << Digits[n + 1] >>
    ELSE NatToStr(n \div 10) \o << Digits[(n % 10) + 1] >>

\* str(x) of a float x, as redis-py and map(str, ...) render it
FloatToStr(x) == IF x < 0 THEN <<"-">> \o NatToStr(0 - x) ELSE NatToStr(x)

RECURSIVE DigitsValue(_)
DigitsValue(s) ==
    IF Len(s) = 0 THEN 0
    ELSE 10 * DigitsValue(SubSeq(s, 1, Len(s) - 1)) + DigitValue(s[Len(s)])

AllDigits(s) == Len(s) > 0 /\ \A i \in 1..Len(s) : IsDigit(s[i])

\* float(s) succeeds
IsFloatStr(s) ==
    /\ Len(s) > 0
    /\ IF s[1] = "-" THEN AllDigits(Tail(s)) ELSE AllDigits(s)

\* float(s), for a string float() accepts
ParseFloat(s) ==
    IF s[1] = "-" THEN 0 - DigitsValue(Tail(s)) ELSE DigitsValue(s)

\* s.split(sep): the tokens between the separators, empty tokens included
RECURSIVE Split(_, _)
Split(s, sep) ==
    IF \A i \in 1..Len(s) : s[i] # sep THEN << s >>
    ELSE LET p == CHOOSE i \in 1..Len(s) :
                      s[i] = sep /\ \A j \in 1..(i - 1) : s[j] # sep
         IN  << SubSeq(s, 1, p - 1) >> \o Split(SubSeq(s, p + 1, Len(s)), sep)

\* sep.join(tokens)
RECURSIVE Join(_, _)
Join(tokens, sep) ==
    IF Len(tokens) = 0 THEN << >>
    ELSE IF Len(tokens) = 1 THEN tokens[1]
    ELSE tokens[1] \o << sep >> \o Join(Tail(tokens), sep)

\* [x for x in tokens if x]
RECURSIVE NonEmptyTokens(_)
NonEmptyTokens(tokens) ==
    IF Len(tokens) = 0 THEN << >>
    ELSE IF Len(tokens[1]) = 0 THEN NonEmptyTokens(Tail(tokens))
    ELSE << tokens[1] >> \o NonEmptyTokens(Tail(tokens))

\* l[-10:]
LastN(l, n) == IF Len(l) <= n THEN l ELSE SubSeq(l, Len(l) - n + 1, Len(l))

RECURSIVE SeqSum(_)
SeqSum(l) == IF Len(l) = 0 THEN 0 ELSE l[1] + SeqSum(Tail(l))

\* ------------------------------------------------------------------------
\* Values of the store
\* ------------------------------------------------------------------------
None == [nil |-> TRUE, s |-> << >>]

Str(x) == [nil |-> FALSE, s |-> x]

\* Python truth of a value returned by get: neither None nor ""
Truthy(v) == ~v.nil /\ Len(v.s) > 0

\* (v or "")
OrEmpty(v) == IF Truthy(v) THEN v.s ELSE << >>

\* the tokens the list comprehension of _load_from_redis iterates over
ListTokens(v) == NonEmptyTokens(Split(OrEmpty(v), separator))

\* every float(x) of the list comprehension succeeds
ListParses(v) == \A i \in 1..Len(ListTokens(v)) : IsFloatStr(ListTokens(v)[i])

\* [float(x) for x in (v or "").split(separator) if x]
DecodeList(v) == [i \in 1..Len(ListTokens(v)) |-> ParseFloat(ListTokens(v)[i])]

\* mutant: the entries are joined with another separator
EncodeListComma(l) == Join([i \in 1..Len(l) |-> FloatToStr(l[i])], ",")

\* separator.join(map(str, l))
EncodeList(l) == Join([i \in 1..Len(l) |-> FloatToStr(l[i])], separator)

\* ------------------------------------------------------------------------
\* State
\* ------------------------------------------------------------------------
VARIABLES
    store,              \* the six keys of the Redis store
    ledger,             \* "absent", "constructing", "ready" or "failed"
    defaultValues,      \* GlobalConsumption.defaultValues, one shared object
    global_consumption, \* the attributes of the one GlobalConsumption object
    thr,                \* per thread: position in the running ledger operation
    ops,                \* number of operations started so far
    hist,               \* history variables the properties are stated with
    sim                 \* the simulation request being served

vars == << store, ledger, defaultValues, global_consumption, thr, ops, hist,
           sim >>

KeysListsFirst ==
    << "energy_used_list", "co2_emissions_list", "energy_used",
       "co2_emissions", "energy_used_unit", "co2_emissions_unit" >>

Keys == << "energy_used", "co2_emissions", "energy_used_list",
           "co2_emissions_list", "energy_used_unit", "co2_emissions_unit" >>

Threads == {1, 2}

\* the thread that imports main.py and serves requests one at a time
MainThread == 1

\* DefaultValues(): the state of a fresh defaults object
FreshDefaults ==
    [ energy_used_list |-> << >>, co2_emissions_list |-> << >>,
      energy_used_unit |-> << "kWh" >>, co2_emissions_unit |-> << "kgCO2" >> ]

\* the attributes of an object whose __init__ has not assigned them yet
Unassigned ==
    [ energy_used |-> 0, co2_emissions |-> 0,
      energy_used_list |-> << >>, co2_emissions_list |-> << >>,
      e_shared |-> FALSE, c_shared |-> FALSE,
      energy_used_unit |-> << >>, co2_emissions_unit |-> << >> ]

\* the arguments of a ledger operation; an operation reads those it declares
NoArgs == [ energy_used |-> 0, co2_emissions |-> 0,
            energy_used_list |-> << >>, co2_emissions_list |-> << >>,
            energy_used_unit |-> << >>, co2_emissions_unit |-> << >> ]

IdleThread == [ pc |-> "idle", k |-> 0, tmp |-> None, caller |-> "none",
                op |-> "none", args |-> NoArgs, outcome |-> "none" ]

\* self.energy_used_list: the object it refers to may be the defaults' list
energy_used_list ==
    IF global_consumption.e_shared THEN defaultValues.energy_used_list
    ELSE global_consumption.energy_used_list

co2_emissions_list ==
    IF global_consumption.c_shared THEN defaultValues.co2_emissions_list
    ELSE global_consumption.co2_emissions_list

\* GlobalConsumption.__dict__(), what get_global_consumption returns
Read ==
    [ energy_used |-> global_consumption.energy_used,
      energy_used_list |-> energy_used_list,
      energy_used_unit |-> global_consumption.energy_used_unit,
      co2_emissions |-> global_consumption.co2_emissions,
      co2_emissions_list |-> co2_emissions_list,
      co2_emissions_unit |-> global_consumption.co2_emissions_unit ]

AllIdle == \A t \in Threads : thr[t].pc = "idle"

\* ------------------------------------------------------------------------
\* The statements of GlobalConsumption, as functions of the object gc, of the
\* shared defaults dv and of the statement's operands
\* ------------------------------------------------------------------------

\* __init__, statements 1 and 2: the unit arguments are written to the defaults
InitStmt(k, dv, a) ==
    IF k = 1 THEN [dv EXCEPT !.energy_used_unit = a.energy_used_unit]
    ELSE [dv EXCEPT !.co2_emissions_unit = a.co2_emissions_unit]

\* mutant: the history is replaced by the new entries
AppendOwnReplace(l, shared, xs) == IF shared THEN l ELSE xs

\* l.append(x) on the list an attribute refers to: the object's own list or,
\* when the attribute refers to it, the defaults' list
AppendOwn(l, shared, xs) == IF shared THEN l ELSE l \o xs

AppendShared(l, shared, xs) == IF shared THEN l \o xs ELSE l

\* mutant: the totals are assigned the deltas, = for +=
UpdateStmtGcAssign(k, gc, a) ==
    CASE k = 1 -> [gc EXCEPT !.energy_used = a.energy_used]
      [] k = 2 -> [gc EXCEPT !.co2_emissions = a.co2_emissions]
      [] k = 3 -> [gc EXCEPT !.energy_used_list =
                       IF gc.e_shared THEN @ ELSE @ \o << a.energy_used >>]
      [] k = 4 -> [gc EXCEPT !.co2_emissions_list =
                       IF gc.c_shared THEN @ ELSE @ \o << a.co2_emissions >>]

UpdateStmtGcSubtract(k, gc, a) ==
    CASE k = 1 -> [gc EXCEPT !.energy_used = @ - a.energy_used]
      [] k = 2 -> [gc EXCEPT !.co2_emissions = @ - a.co2_emissions]
      [] k = 3 -> [gc EXCEPT !.energy_used_list =
                       IF gc.e_shared THEN @ ELSE @ \o << a.energy_used >>]
      [] k = 4 -> [gc EXCEPT !.co2_emissions_list =
                       IF gc.c_shared THEN @ ELSE @ \o << a.co2_emissions >>]

\* update, statements 1 to 4
UpdateStmtGc(k, gc, a) ==
    CASE k = 1 -> [gc EXCEPT !.energy_used = @ + a.energy_used]
      [] k = 2 -> [gc EXCEPT !.co2_emissions = @ + a.co2_emissions]
      [] k = 3 -> [gc EXCEPT !.energy_used_list =
                       AppendOwn(@, gc.e_shared, << a.energy_used >>)]
      [] k = 4 -> [gc EXCEPT !.co2_emissions_list =
                       AppendOwn(@, gc.c_shared, << a.co2_emissions >>)]

UpdateStmtDv(k, gc, dv, a) ==
    CASE k = 3 -> [dv EXCEPT !.energy_used_list =
                       AppendShared(@, gc.e_shared, << a.energy_used >>)]
      [] k = 4 -> [dv EXCEPT !.co2_emissions_list =
                       AppendShared(@, gc.c_shared, << a.co2_emissions >>)]
      [] OTHER -> dv

\* mutant: the totals grow by the sums of the lists
UpdateListStmtGcSummed(k, gc, a) ==
    CASE k = 1 -> [gc EXCEPT !.energy_used = @ + SeqSum(a.energy_used_list)]
      [] k = 2 -> [gc EXCEPT !.co2_emissions = @ + SeqSum(a.co2_emissions_list)]
      [] k = 3 -> [gc EXCEPT !.energy_used_list =
                       IF gc.e_shared THEN @ ELSE @ \o a.energy_used_list]
      [] k = 4 -> [gc EXCEPT !.co2_emissions_list =
                       IF gc.c_shared THEN @ ELSE @ \o a.co2_emissions_list]

\* update_list, statements 1 to 4
UpdateListStmtGc(k, gc, a) ==
    CASE k = 1 -> [gc EXCEPT !.energy_used = @ + a.energy_used]
      [] k = 2 -> [gc EXCEPT !.co2_emissions = @ + a.co2_emissions]
      [] k = 3 -> [gc EXCEPT !.energy_used_list =
                       AppendOwn(@, gc.e_shared, a.energy_used_list)]
      [] k = 4 -> [gc EXCEPT !.co2_emissions_list =
                       AppendOwn(@, gc.c_shared, a.co2_emissions_list)]

UpdateListStmtDv(k, gc, dv, a) ==
    CASE k = 3 -> [dv EXCEPT !.energy_used_list =
                       AppendShared(@, gc.e_shared, a.energy_used_list)]
      [] k = 4 -> [dv EXCEPT !.co2_emissions_list =
                       AppendShared(@, gc.c_shared, a.co2_emissions_list)]
      [] OTHER -> dv

\* mutant: reset leaves the carbon history as it is
ResetStmtKeepsCo2List(k, gc) ==
    CASE k = 1 -> [gc EXCEPT !.energy_used = default_energy_used]
      [] k = 2 -> [gc EXCEPT !.co2_emissions = default_co2_emissions]
      [] k = 3 -> [gc EXCEPT !.energy_used_list = << >>, !.e_shared = TRUE]
      [] k = 4 -> gc

\* reset, statements 1 to 4: the list attributes are bound to the defaults' lists
ResetStmt(k, gc) ==
    CASE k = 1 -> [gc EXCEPT !.energy_used = default_energy_used]
      [] k = 2 -> [gc EXCEPT !.co2_emissions = default_co2_emissions]
      [] k = 3 -> [gc EXCEPT !.energy_used_list = << >>, !.e_shared = TRUE]
      [] k = 4 -> [gc EXCEPT !.co2_emissions_list = << >>, !.c_shared = TRUE]

\* number of statements of an operation's body before its call of _save
\* (of __init__: before its call of _load_from_redis)
BodyLen(op) == IF op = "init" THEN 2 ELSE 4

\* _save_to_redis, the value statement k hands to redis_client.set
SavedValueSwapped(k, gc, dv) ==
    CASE k = 1 -> FloatToStr(gc.co2_emissions)
      [] k = 2 -> FloatToStr(gc.energy_used)
      [] k = 3 -> EncodeList(IF gc.e_shared THEN dv.energy_used_list
                             ELSE gc.energy_used_list)
      [] k = 4 -> EncodeList(IF gc.c_shared THEN dv.co2_emissions_list
                             ELSE gc.co2_emissions_list)
      [] k = 5 -> gc.energy_used_unit
      [] k = 6 -> gc.co2_emissions_unit

SavedValue(k, gc, dv) ==
    CASE k = 1 -> FloatToStr(gc.energy_used)
      [] k = 2 -> FloatToStr(gc.co2_emissions)
      [] k = 3 -> EncodeList(IF gc.e_shared THEN dv.energy_used_list
                             ELSE gc.energy_used_list)
      [] k = 4 -> EncodeList(IF gc.c_shared THEN dv.co2_emissions_list
                             ELSE gc.co2_emissions_list)
      [] k = 5 -> gc.energy_used_unit
      [] k = 6 -> gc.co2_emissions_unit

\* _load_from_redis, statement k with v the value redis_client.get returned:
\* float() or the list comprehension raises ValueError
LoadRaises(k, v) ==
    CASE k \in {1, 2} -> Truthy(v) /\ ~IsFloatStr(v.s)
      [] k \in {3, 4} -> ~ListParses(v)
      [] OTHER -> FALSE

\* float(v or default)
FloatOrDefault(v, default) == default

FloatOr(v, default) == IF Truthy(v) THEN ParseFloat(v.s) ELSE default

\* v or default, for a unit
UnitOrDefault(v, default) == default

UnitOrArgument(v, default) == IF default # << >> THEN default ELSE v.s

UnitOr(v, default) == IF Truthy(v) THEN v.s ELSE default

\* _load_from_redis, statements 1 to 6: the attribute assigned
LoadStmt(k, v, gc, dv) ==
    CASE k = 1 -> [gc EXCEPT !.energy_used = FloatOr(v, default_energy_used)]
      [] k = 2 -> [gc EXCEPT !.co2_emissions = FloatOr(v, default_co2_emissions)]
      [] k = 3 -> [gc EXCEPT !.energy_used_list = DecodeList(v),
                             !.e_shared = (Len(DecodeList(v)) = 0)]
      [] k = 4 -> [gc EXCEPT !.co2_emissions_list = DecodeList(v),
                             !.c_shared = (Len(DecodeList(v)) = 0)]
      [] k = 5 -> [gc EXCEPT !.energy_used_unit = UnitOr(v, dv.energy_used_unit)]
      [] k = 6 -> [gc EXCEPT !.co2_emissions_unit =
                       UnitOr(v, dv.co2_emissions_unit)]

\* mutant: the history is not cut
TruncateNot(l) == l

\* mutant: l[:10], the oldest entries are kept
TruncateHead(l) == IF Len(l) <= HistoryMax THEN l ELSE SubSeq(l, 1, HistoryMax)

\* l[-10:], a new list
Truncate(l) == LastN(l, HistoryMax)

\* _load_from_redis, statements 7 and 8
TruncateStmt(k, gc, dv) ==
    IF k = 7
    THEN [gc EXCEPT !.energy_used_list =
                 Truncate(IF gc.e_shared THEN dv.energy_used_list ELSE @),
                    !.e_shared = FALSE]
    ELSE [gc EXCEPT !.co2_emissions_list =
                 Truncate(IF gc.c_shared THEN dv.co2_emissions_list ELSE @),
                    !.c_shared = FALSE]

\* ------------------------------------------------------------------------
\* The simulation session of main.py.  Temperatures are in thousandths of a
\* degree, times in seconds
\* ------------------------------------------------------------------------
\* number of windows of a series
MaxRep == 3

\* (current_intensity ** 1.4 / 73785) * 130 in thousandths of a degree, for the
\* intensities of the model
Heating(current_intensity) == IF current_intensity = 300 THEN 5175 ELSE 0

\* 1 / ((1 / 60) * (1 / 1600) * 0.4): d_tc_dt is kept as a numerator over it
RateScale == 240000

\* d_tc_dt: -(1 / 60) * a * (tc - ambient - b), with a = wind ** 2 / 1600 * 0.4
\* + 0.1 = (wind ** 2 + 400) / 4000, as a numerator over RateScale
d_tc_dt(tc, time_s, ambient_temperature, wind_speed, current_intensity) ==
    0 - (wind_speed * wind_speed + 400)
          * (tc - ambient_temperature - Heating(current_intensity))

\* len(np.arange(0, total_time_s, time_step))
GridLen(total_time_s, time_step) ==
    IF total_time_s <= 0 THEN 0
    ELSE (total_time_s + time_step - 1) \div time_step

\* the solution at the grid point of index i, advanced from the point before
RECURSIVE Solve(_, _, _, _, _, _)
Solve(tc0, i, time_step, ambient_temperature, wind_speed, current_intensity) ==
    IF i = 0 THEN tc0
    ELSE LET tc == Solve(tc0, i - 1, time_step, ambient_temperature,
                         wind_speed, current_intensity)
         IN  tc + (d_tc_dt(tc, (i - 1) * time_step, ambient_temperature,
                           wind_speed, current_intensity) * time_step)
                  \div RateScale

\* simulate_cable_temperature raises because of its arguments: odeint is given
\* no time point, arange a step that is not positive, or d_tc_dt returns a
\* complex number (a negative intensity to the power 1.4)
IntegrateRaises(a) ==
    \/ a.simulation_duration <= 0
    \/ a.time_step <= 0
    \/ a.current_intensity < 0

\* simulate_cable_temperature: float(tc_sol[-1]), the solution at the last
\* point of the grid
Integrate(tc0, a) ==
    Solve(tc0, GridLen(a.simulation_duration, a.time_step) - 1, a.time_step,
          a.ambient_temperature, a.wind_speed, a.current_intensity)

\* list(range(0, stop, step)), for a step that is not 0
RECURSIVE RangeFrom(_, _, _)
RangeFrom(start, stop, step) ==
    IF (step > 0 /\ start >= stop) \/ (step < 0 /\ start <= stop) THEN << >>
    ELSE << start >> \o RangeFrom(start + step, stop, step)

NoSimArgs ==
    [ number_of_repetition |-> 0, simulation_duration |-> 0, time_step |-> 0,
      ambient_temperature |-> 0, wind_speed |-> 0, current_intensity |-> 0,
      cable_temperature_initial |-> 0 ]

NoResponse ==
    [ final_temperature |-> 0, energy_used |-> 0, co2_emissions |-> 0,
      execution_time |-> 0 ]

NoSeries ==
    [ final_temperature_list |-> << >>, time_points_list |-> << >>,
      energy_used_list |-> << >>, cumulative_energy_used |-> 0,
      co2_emissions_list |-> << >>, cumulative_co2_emissions |-> 0,
      execution_time |-> << >>, cumulative_execution_time |-> 0 ]

\* no request is being served
SimIdle ==
    [ pc |-> "idle", entry |-> "none", args |-> NoSimArgs, outcome |-> "none",
      range |-> << >>, tmp |-> 0, current_cable_temperature |-> 0,
      final_temperature_list |-> << >>, time_points_list |-> << >>,
      energy_used_list |-> << >>, co2_emissions_list |-> << >>,
      execution_time |-> << >>,
      window |-> NoSimArgs, tracker |-> "none", starts |-> 0, stops |-> 0,
      res |-> NoResponse, series |-> NoSeries, calls |-> << >>,
      status |-> "none" ]

\* inputs of the simulation requests
Repetitions == (0 - 1)..MaxRep

Durations == {0 - 1, 0, 1, 2, 3}

TimeSteps == {0, 1}

AmbientTemperatures == {25000}

WindSpeeds == {1}

CurrentIntensities == {0 - 10, 0, 300}

InitialTemperatures == {25000, 40000}

SimArgs ==
    [ number_of_repetition : Repetitions, simulation_duration : Durations,
      time_step : TimeSteps, ambient_temperature : AmbientTemperatures,
      wind_speed : WindSpeeds, current_intensity : CurrentIntensities,
      cable_temperature_initial : InitialTemperatures ]

\* what the clock and the meter measure for one window
ExecutionTimes == {1, 2}

MeterReadings == { << 1, 1 >>, << 2, 3 >> }

\* ------------------------------------------------------------------------
\* Initial contents of the store
\* ------------------------------------------------------------------------
Ramp(n) == [i \in 1..n |-> i]

StoreOf(e, c, le, lc, ue, uc) ==
    [ energy_used |-> e, co2_emissions |-> c, energy_used_list |-> le,
      co2_emissions_list |-> lc, energy_used_unit |-> ue,
      co2_emissions_unit |-> uc ]

\* nothing stored yet
EmptyStore == StoreOf(None, None, None, None, None, None)

\* what a ledger wrote earlier: 3, 10 and 9 entries of history
WrittenStores ==
    { StoreOf(Str(FloatToStr(5)), Str(FloatToStr(3)),
              Str(EncodeList(<< 1, 2, 2 >>)), Str(EncodeList(<< 1, 1, 1 >>)),
              Str(<< "kWh" >>), Str(<< "kgCO2" >>)),
      StoreOf(Str(FloatToStr(55)), Str(FloatToStr(45)),
              Str(EncodeList(Ramp(HistoryMax))),
              Str(EncodeList(Ramp(HistoryMax - 1))),
              Str(<< "Wh" >>), Str(<< "gCO2" >>)) }

\* what no ledger writes: more than 10 entries, empty tokens, leading zeros,
\* empty strings, a negative entry
ForeignStores ==
    { StoreOf(Str(FloatToStr(78)), Str(FloatToStr(12)),
              Str(EncodeList(Ramp(HistoryMax + 2))),
              Str(EncodeList(Ramp(HistoryMax + 1))),
              Str(<< "Wh" >>), None),
      StoreOf(Str(<< "0", "0", "7" >>), Str(<< >>),
              Str(<< "1", "|", "|", "2", "|" >>), Str(<< "|", "-", "1" >>),
              Str(<< >>), Str(<< "kgCO2" >>)) }

\* values float() rejects
CorruptStores ==
    { StoreOf(Str(<< "x" >>), None, None, None, None, None),
      StoreOf(Str(FloatToStr(1)), Str(FloatToStr(1)),
              Str(<< "1", "|", "x" >>), Str(<< "1" >>), None, None),
      StoreOf(Str(FloatToStr(1)), Str(<< "-" >>), None, None, None, None) }

InitStores == {EmptyStore} \cup WrittenStores \cup ForeignStores \cup CorruptStores

\* ------------------------------------------------------------------------
\* Inputs of the operations
\* ------------------------------------------------------------------------
\* update(energy_used, co2_emissions)
UpdateArgs == { << 1, 3 >>, << 2, 0 >> }

\* update_list(energy_used, co2_emissions, energy_used_list, co2_emissions_list):
\* empty lists; lists of different lengths that sum to the totals; a list longer
\* than the history, whose sum is not the total
UpdateListArgs ==
    { << 0, 0, << >>, << >> >>,
      << 3, 1, << 1, 2 >>, << 1 >> >>,
      << 2, 5, Ramp(HistoryMax + 1), << 1, 1, 1 >> >> }

UnitArgs == { << << "kWh" >>, << "kgCO2" >> >>, << << "Wh" >>, << "gCO2" >> >> }

\* ------------------------------------------------------------------------
\* Initial state
\* ------------------------------------------------------------------------
Init ==
    /\ store \in InitStores
    /\ ledger = "absent"
    /\ defaultValues = FreshDefaults
    /\ global_consumption = Unassigned
    /\ thr = [t \in Threads |-> IdleThread]
    /\ ops = 0
    /\ sim = SimIdle
    /\ hist = [ sum_e |-> 0, sum_c |-> 0, cat_e |-> << >>, cat_c |-> << >>,
                pre |-> Read, pre_store |-> store, old |-> Read,
                restarted |-> FALSE,
                overlap |-> FALSE, load0 |-> [t \in Threads |-> EmptyStore],
                faults |-> 0, fault_ops |-> 0, fault_store |-> EmptyStore ]

\* ------------------------------------------------------------------------
\* Control flow of a ledger operation run by thread t
\*   body -> [_save: save_eval/save_set x 6] -> load_get/load_assign x 6
\*        -> truncate x 2 -> [_load_from_redis: save_eval/save_set x 6] -> idle
\* ------------------------------------------------------------------------
At(t, pc) == thr[t].pc = pc

Others(t) == Threads \ {t}

\* a request handler enters a ledger operation
Enter(t, op, a) ==
    [IdleThread EXCEPT !.pc = "body", !.k = 1, !.op = op, !.args = a]

\* the thread calls _load_from_redis
CallLoad(th) == [th EXCEPT !.pc = "load_get", !.k = 1, !.tmp = None]

\* the thread calls _save_to_redis from caller
CallSave(th, caller) ==
    [th EXCEPT !.pc = "save_eval", !.k = 1, !.tmp = None, !.caller = caller]

\* the operation returns or raises
Leave(th, outcome) ==
    [th EXCEPT !.pc = "idle", !.k = 0, !.tmp = None, !.caller = "none",
               !.outcome = outcome]

Overlaps(t) == \E o \in Others(t) : thr[o].pc # "idle"

\* history variables: the snapshot and the store at the start of an operation
\* and the store at the start of a load, taken when no other operation runs
AtStart(h, t) ==
    IF Overlaps(t) THEN [h EXCEPT !.overlap = TRUE]
    ELSE [h EXCEPT !.pre = Read, !.pre_store = store]

AtLoad(h, t, st) == IF Overlaps(t) THEN h ELSE [h EXCEPT !.load0[t] = st]

\* global_consumption = GlobalConsumption(): main.py, at import
Construct(t) ==
    /\ t = MainThread
    /\ ledger = "absent"
    /\ At(t, "idle")
    /\ \E u \in UnitArgs :
         thr' = [thr EXCEPT ![t] =
                   Enter(t, "init", [NoArgs EXCEPT !.energy_used_unit = u[1],
                                                   !.co2_emissions_unit = u[2]])]
    /\ ledger' = "constructing"
    /\ UNCHANGED << store, defaultValues, global_consumption, ops, hist, sim >>

\* update(energy_used, co2_emissions) is called
StartUpdate(t) ==
    /\ ledger = "ready"
    /\ At(t, "idle")
    /\ ops < MaxOps
    /\ \E a \in UpdateArgs :
         /\ thr' = [thr EXCEPT ![t] =
                      Enter(t, "update", [NoArgs EXCEPT !.energy_used = a[1],
                                                        !.co2_emissions = a[2]])]
         /\ hist' = [AtStart(hist, t) EXCEPT
                                 !.sum_e = @ + a[1], !.sum_c = @ + a[2],
                                 !.cat_e = @ \o << a[1] >>,
                                 !.cat_c = @ \o << a[2] >>]
    /\ ops' = ops + 1
    /\ UNCHANGED << store, ledger, defaultValues, global_consumption, sim >>

\* update_list(energy_used, co2_emissions, energy_used_list, co2_emissions_list)
\* is called
StartUpdateList(t) ==
    /\ ledger = "ready"
    /\ At(t, "idle")
    /\ ops < MaxOps
    /\ \E a \in UpdateListArgs :
         /\ thr' = [thr EXCEPT ![t] =
                      Enter(t, "update_list",
                            [NoArgs EXCEPT !.energy_used = a[1],
                                           !.co2_emissions = a[2],
                                           !.energy_used_list = a[3],
                                           !.co2_emissions_list = a[4]])]
         /\ hist' = [AtStart(hist, t) EXCEPT
                                 !.sum_e = @ + a[1], !.sum_c = @ + a[2],
                                 !.cat_e = @ \o a[3], !.cat_c = @ \o a[4]]
    /\ ops' = ops + 1
    /\ UNCHANGED << store, ledger, defaultValues, global_consumption, sim >>

\* reset() is called
StartReset(t) ==
    /\ ledger = "ready"
    /\ At(t, "idle")
    /\ ops < MaxOps
    /\ thr' = [thr EXCEPT ![t] = Enter(t, "reset", NoArgs)]
    /\ hist' = [AtStart(hist, t) EXCEPT
                            !.sum_e = default_energy_used,
                            !.sum_c = default_co2_emissions,
                            !.cat_e = << >>, !.cat_c = << >>]
    /\ ops' = ops + 1
    /\ UNCHANGED << store, ledger, defaultValues, global_consumption, sim >>

\* one statement of the body of __init__, update, update_list or reset; after
\* the last one __init__ calls _load_from_redis and the others call _save
Body(t) ==
    /\ At(t, "body")
    /\ LET th == thr[t]
           gc == global_consumption
           dv == defaultValues
       IN  /\ global_consumption' =
                 CASE th.op = "update" -> UpdateStmtGc(th.k, gc, th.args)
                   [] th.op = "update_list" -> UpdateListStmtGc(th.k, gc, th.args)
                   [] th.op = "reset" -> ResetStmt(th.k, gc)
                   [] OTHER -> gc
           /\ defaultValues' =
                 CASE th.op = "init" -> InitStmt(th.k, dv, th.args)
                   [] th.op = "update" -> UpdateStmtDv(th.k, gc, dv, th.args)
                   [] th.op = "update_list" ->
                          UpdateListStmtDv(th.k, gc, dv, th.args)
                   [] OTHER -> dv
           /\ thr' = [thr EXCEPT ![t] =
                        IF th.k < BodyLen(th.op) THEN [th EXCEPT !.k = @ + 1]
                        ELSE IF th.op = "init" THEN CallLoad(th)
                        ELSE CallSave(th, "_save")]
           /\ hist' = IF th.k = BodyLen(th.op) /\ th.op = "init"
                      THEN AtLoad(hist, t, store)
                      ELSE hist
    /\ UNCHANGED << store, ledger, ops, sim >>

\* _save_to_redis, statement k: the argument of redis_client.set is evaluated
SaveEval(t) ==
    /\ At(t, "save_eval")
    /\ thr' = [thr EXCEPT ![t] =
                 [@ EXCEPT !.pc = "save_set",
                           !.tmp = Str(SavedValue(thr[t].k, global_consumption,
                                                  defaultValues))]]
    /\ UNCHANGED << store, ledger, defaultValues, global_consumption, ops, hist, sim >>

\* the ledger's state once __init__ has returned: where the sums start
Started(h, r) ==
    [h EXCEPT !.sum_e = r.energy_used, !.sum_c = r.co2_emissions,
              !.cat_e = r.energy_used_list, !.cat_c = r.co2_emissions_list]

\* _save_to_redis, statement k: redis_client.set writes the key; after the
\* sixth write _save goes on to _load_from_redis, and _load_from_redis returns
SaveSet(t) ==
    /\ At(t, "save_set")
    /\ LET th == thr[t]
       IN  /\ store' = [store EXCEPT ![Keys[th.k]] = th.tmp]
           /\ thr' = [thr EXCEPT ![t] =
                        IF th.k < 6
                        THEN [th EXCEPT !.pc = "save_eval", !.k = @ + 1,
                                        !.tmp = None]
                        ELSE IF th.caller = "_save" THEN CallLoad(th)
                        ELSE Leave(th, "ok")]
           /\ ledger' = IF th.k = 6 /\ th.caller = "_load" /\ th.op = "init"
                        THEN "ready" ELSE ledger
           /\ hist' = IF th.k = 6 /\ th.caller = "_save"
                      THEN AtLoad(hist, t, store')
                      ELSE IF th.k = 6 /\ th.op = "init"
                      THEN Started(hist, Read)
                      ELSE hist
    /\ UNCHANGED << defaultValues, global_consumption, ops, sim >>

\* _load_from_redis, statement k: redis_client.get returns the stored value
LoadGet(t) ==
    /\ At(t, "load_get")
    /\ thr' = [thr EXCEPT ![t] =
                 [@ EXCEPT !.pc = "load_assign",
                           !.tmp = store[Keys[thr[t].k]]]]
    /\ UNCHANGED << store, ledger, defaultValues, global_consumption, ops, hist, sim >>

\* _load_from_redis, statement k: the value is converted and assigned
LoadAssign(t) ==
    /\ At(t, "load_assign")
    /\ ~LoadRaises(thr[t].k, thr[t].tmp)
    /\ global_consumption' =
           LoadStmt(thr[t].k, thr[t].tmp, global_consumption, defaultValues)
    /\ thr' = [thr EXCEPT ![t] =
                 IF thr[t].k < 6
                 THEN [@ EXCEPT !.pc = "load_get", !.k = @ + 1, !.tmp = None]
                 ELSE [@ EXCEPT !.pc = "truncate", !.k = 7, !.tmp = None]]
    /\ UNCHANGED << store, ledger, defaultValues, ops, hist, sim >>

\* _load_from_redis, statement k: float() raises ValueError, which nothing in
\* GlobalConsumption catches; raised in __init__ it ends the import of main.py
LoadRaise(t) ==
    /\ At(t, "load_assign")
    /\ LoadRaises(thr[t].k, thr[t].tmp)
    /\ thr' = [thr EXCEPT ![t] = Leave(@, "ValueError")]
    /\ ledger' = IF thr[t].op = "init" THEN "failed" ELSE ledger
    /\ UNCHANGED << store, defaultValues, global_consumption, ops, hist, sim >>

\* _load_from_redis, statements 7 and 8, then its call of _save_to_redis
LoadTruncate(t) ==
    /\ At(t, "truncate")
    /\ global_consumption' =
           TruncateStmt(thr[t].k, global_consumption, defaultValues)
    /\ thr' = [thr EXCEPT ![t] =
                 IF thr[t].k = 7 THEN [@ EXCEPT !.k = 8]
                 ELSE CallSave(@, "_load")]
    /\ UNCHANGED << store, ledger, defaultValues, ops, hist, sim >>

\* the process ends between two requests and main.py is imported again: a new
\* GlobalConsumption class, defaults and object, the same store
Restart ==
    /\ ledger = "ready"
    /\ AllIdle
    /\ ops < MaxOps
    /\ ledger' = "absent"
    /\ defaultValues' = FreshDefaults
    /\ global_consumption' = Unassigned
    /\ thr' = [t \in Threads |-> IdleThread]
    /\ hist' = [hist EXCEPT !.old = Read, !.restarted = TRUE]
    /\ ops' = ops + 1
    /\ UNCHANGED << store, sim >>

Step(t) ==
    \/ Construct(t)
    \/ StartUpdate(t)
    \/ StartUpdateList(t)
    \/ StartReset(t)
    \/ Body(t)
    \/ SaveEval(t)
    \/ SaveSet(t)
    \/ LoadGet(t)
    \/ LoadAssign(t)
    \/ LoadRaise(t)
    \/ LoadTruncate(t)

\* requests served one at a time
Next == Step(MainThread) \/ Restart

Spec == Init /\ [][Next]_vars

\* ------------------------------------------------------------------------
\* The store fails: the redis server cannot be reached when a key is written
\* ------------------------------------------------------------------------
\* failures of the store in one behaviour
MaxFaults == 1

FailStores ==
    { StoreOf(Str(FloatToStr(5)), Str(FloatToStr(3)),
              Str(EncodeList(<< 1, 2, 2 >>)), Str(EncodeList(<< 1, 1, 1 >>)),
              Str(<< "kWh" >>), Str(<< "kgCO2" >>)),
      StoreOf(Str(<< "x" >>), None, None, None, None, None) }

InitFail ==
    /\ Init
    /\ store \in FailStores

\* the error of self.client.set leaves RedisClient.set, _save_to_redis, _save
\* and the operation: none of them has a try
SetRaisesSwallowed(th) ==
    IF th.k < 6 THEN [th EXCEPT !.pc = "save_eval", !.k = @ + 1, !.tmp = None]
    ELSE Leave(th, "ok")

SetRaises(th) == Leave(th, "RedisError")

\* _save_to_redis, statement k: redis_client.set raises and the key is not
\* written
SetRaise(t) ==
    /\ At(t, "save_set")
    /\ hist.faults < MaxFaults
    /\ thr' = [thr EXCEPT ![t] = SetRaises(@)]
    /\ ledger' = IF thr[t].op = "init" THEN "failed" ELSE ledger
    /\ hist' = [hist EXCEPT !.faults = @ + 1, !.fault_ops = ops,
                            !.fault_store = store]
    /\ UNCHANGED << store, defaultValues, global_consumption, ops, sim >>

NextFail == Step(MainThread) \/ SetRaise(MainThread)

SpecFail == InitFail /\ [][NextFail]_vars

\* ------------------------------------------------------------------------
\* One simulation request: simulate_cable_temperature_with_consumption (a
\* window) or simulate_cable_temperature_over_x_minutes_with_consumption (a
\* series of windows)
\* ------------------------------------------------------------------------
Ledger == << store, ledger, defaultValues, global_consumption, thr, ops, hist >>

\* the call of simulate_cable_temperature_with_consumption with arguments w:
\* the tracker is created
CallWindow(s, w) ==
    [ s EXCEPT !.pc = "w_start", !.window = w, !.tracker = "created",
               !.calls = Append(@, w) ]

\* the initial temperature the series gives its next window
WindowInitialArg(s) == s.args.cable_temperature_initial

WindowInitial(s) == s.current_cable_temperature

\* raise ValueError: the call ends, and so does the loop of a series around it
RaiseSwallowed(s) == [ s EXCEPT !.pc = "loop", !.outcome = "ValueError" ]

Raise(s) == [ s EXCEPT !.pc = "raised", !.outcome = "ValueError" ]

\* tracker.stop()
StopTrackerNot(s) == s

StopTracker(s) == [ s EXCEPT !.tracker = "stopped", !.stops = @ + 1 ]

\* tmp + simulation_duration, the time point appended for the window
TimePointStart(s) == s.tmp

TimePoint(s) == s.tmp + s.args.simulation_duration

\* sum(l) of the returned series
CumulativeLast(l) == IF l = << >> THEN 0 ELSE l[Len(l)]

Cumulative(l) == SeqSum(l)

\* a caller runs one window
SimRunWindow ==
    /\ sim.pc = "idle"
    /\ sim.entry = "none"
    /\ \E a \in SimArgs :
         /\ a.number_of_repetition = 1
         /\ sim' = CallWindow([ sim EXCEPT !.entry = "window", !.args = a ], a)
    /\ UNCHANGED Ledger

\* a caller runs a series: the five lists, the current temperature and the
\* range of the loop
SimRunSeries ==
    /\ sim.pc = "idle"
    /\ sim.entry = "none"
    /\ \E a \in SimArgs :
         LET s == [ sim EXCEPT !.entry = "series", !.args = a,
                               !.current_cable_temperature =
                                   a.cable_temperature_initial ]
         IN  sim' = IF a.simulation_duration = 0
                    THEN [ s EXCEPT !.pc = "raised", !.outcome = "ValueError" ]
                    ELSE [ s EXCEPT !.pc = "loop",
                              !.range = RangeFrom(0,
                                  a.number_of_repetition * a.simulation_duration,
                                  a.simulation_duration) ]
    /\ UNCHANGED Ledger

\* the next iteration of the loop calls a window
SimNextWindow ==
    /\ sim.pc = "loop"
    /\ sim.range # << >>
    /\ sim' = CallWindow(
                 [ sim EXCEPT !.tmp = Head(sim.range), !.range = Tail(@) ],
                 [ sim.args EXCEPT !.cable_temperature_initial =
                                       WindowInitial(sim) ])
    /\ UNCHANGED Ledger

\* the loop is over: the series is returned with its sums
SimSeriesReturn ==
    /\ sim.pc = "loop"
    /\ sim.range = << >>
    /\ sim' = [ sim EXCEPT
                  !.pc = "done", !.outcome = "ok",
                  !.series =
                      [ final_temperature_list |-> sim.final_temperature_list,
                        time_points_list |-> sim.time_points_list,
                        energy_used_list |-> sim.energy_used_list,
                        cumulative_energy_used |->
                            Cumulative(sim.energy_used_list),
                        co2_emissions_list |-> sim.co2_emissions_list,
                        cumulative_co2_emissions |->
                            Cumulative(sim.co2_emissions_list),
                        execution_time |-> sim.execution_time,
                        cumulative_execution_time |->
                            Cumulative(sim.execution_time) ] ]
    /\ UNCHANGED Ledger

\* tracker.start()
WStart ==
    /\ sim.pc = "w_start"
    /\ sim' = [ sim EXCEPT !.pc = "w_integrate", !.tracker = "started",
                           !.starts = @ + 1 ]
    /\ UNCHANGED Ledger

\* simulate_cable_temperature returns the final temperature and the time the
\* integration took
WIntegrate ==
    /\ sim.pc = "w_integrate"
    /\ ~IntegrateRaises(sim.window)
    /\ \E x \in ExecutionTimes :
         sim' = [ sim EXCEPT
                    !.pc = "w_stop",
                    !.res = [ NoResponse EXCEPT
                                !.final_temperature =
                                    Integrate(
                                        sim.window.cable_temperature_initial,
                                        sim.window),
                                !.execution_time = x ] ]
    /\ UNCHANGED Ledger

\* simulate_cable_temperature raises because of its arguments
WIntegrateRaise ==
    /\ sim.pc = "w_integrate"
    /\ IntegrateRaises(sim.window)
    /\ sim' = [ sim EXCEPT !.pc = "w_except" ]
    /\ UNCHANGED Ledger

\* simulate_cable_temperature raises with arguments it accepts: the arrays of
\* arange and odeint hold one entry for each time step, and an allocation that
\* fails is a MemoryError
WIntegrateFault ==
    /\ sim.pc = "w_integrate"
    /\ ~IntegrateRaises(sim.window)
    /\ sim' = [ sim EXCEPT !.pc = "w_except" ]
    /\ UNCHANGED Ledger

\* tracker.start() raises: the except branch runs with the tracker not started
WStartFault ==
    /\ sim.pc = "w_start"
    /\ sim' = [ sim EXCEPT !.pc = "w_except" ]
    /\ UNCHANGED Ledger

\* tracker.stop() and tracker._total_energy.kWh
WStop ==
    /\ sim.pc = "w_stop"
    /\ \E m \in MeterReadings :
         sim' = [ StopTracker(sim) EXCEPT !.pc = "w_return",
                                          !.res.energy_used = m[1],
                                          !.res.co2_emissions = m[2] ]
    /\ UNCHANGED Ledger

\* the window returns its response
WReturn ==
    /\ sim.pc = "w_return"
    /\ sim' = IF sim.entry = "window"
              THEN [ sim EXCEPT !.pc = "done", !.outcome = "ok" ]
              ELSE [ sim EXCEPT !.pc = "append" ]
    /\ UNCHANGED Ledger

\* the statements after tracker.stop() raise (the read of _total_energy, the
\* validation of the response): they are inside the try, the except branch
\* runs with the tracker already stopped
WReturnFault ==
    /\ sim.pc = "w_return"
    /\ sim' = [ sim EXCEPT !.pc = "w_except", !.res = NoResponse ]
    /\ UNCHANGED Ledger

\* except Exception: tracker.stop(), then ValueError, which the loop of a
\* series does not catch
WExcept ==
    /\ sim.pc = "w_except"
    /\ sim' = Raise(StopTracker(sim))
    /\ UNCHANGED Ledger

\* the body of the loop after the call
SimAppend ==
    /\ sim.pc = "append"
    /\ sim' = [ sim EXCEPT
                  !.pc = "loop",
                  !.final_temperature_list =
                      Append(@, sim.res.final_temperature),
                  !.time_points_list =
                      Append(@, TimePoint(sim)),
                  !.energy_used_list = Append(@, sim.res.energy_used),
                  !.co2_emissions_list = Append(@, sim.res.co2_emissions),
                  !.execution_time = Append(@, sim.res.execution_time),
                  !.current_cable_temperature = sim.res.final_temperature ]
    /\ UNCHANGED Ledger

InitSim ==
    /\ Init
    /\ store = EmptyStore

NextSim ==
    \/ SimRunWindow
    \/ SimRunSeries
    \/ SimNextWindow
    \/ SimSeriesReturn
    \/ WStart
    \/ WIntegrate
    \/ WIntegrateRaise
    \/ WIntegrateFault
    \/ WStartFault
    \/ WStop
    \/ WReturn
    \/ WReturnFault
    \/ WExcept
    \/ SimAppend

SpecSim == InitSim /\ [][NextSim]_vars

\* ------------------------------------------------------------------------
\* Requests served concurrently: FastAPI runs the handlers, plain def
\* functions, in a pool of threads that share the one global_consumption
\* object; each thread serves one request
\* ------------------------------------------------------------------------
ConcStores ==
    { StoreOf(Str(FloatToStr(5)), Str(FloatToStr(3)),
              Str(EncodeList(<< 1, 2, 2 >>)), Str(EncodeList(<< 1, 1, 1 >>)),
              Str(<< "kWh" >>), Str(<< "kgCO2" >>)),
      StoreOf(Str(<< "x" >>), None, None, None, None, None) }

InitConc ==
    /\ Init
    /\ store \in ConcStores

\* the thread has served no request yet
Fresh(t) == thr[t].op \in {"none", "init"}

\* main.py constructs the ledger with the default unit arguments
ServerConstruct(t) ==
    /\ Construct(t)
    /\ thr'[t].args.energy_used_unit = FreshDefaults.energy_used_unit
    /\ thr'[t].args.co2_emissions_unit = FreshDefaults.co2_emissions_unit

\* POST /cable_temperature_consumption_simulation, served by a fresh thread
RequestUpdate(t) == Fresh(t) /\ StartUpdate(t)

\* two threads, one update each
NextConc ==
    \E t \in Threads :
       \/ ServerConstruct(t)
       \/ RequestUpdate(t)
       \/ Body(t)
       \/ SaveEval(t)
       \/ SaveSet(t)
       \/ LoadGet(t)
       \/ LoadAssign(t)
       \/ LoadRaise(t)
       \/ LoadTruncate(t)

SpecConc == InitConc /\ [][NextConc]_vars

\* the same two requests on a ledger whose stored histories are full
FullStores ==
    { StoreOf(Str(FloatToStr(55)), Str(FloatToStr(45)),
              Str(EncodeList(Ramp(HistoryMax))),
              Str(EncodeList(Ramp(HistoryMax - 1))),
              Str(<< "Wh" >>), Str(<< "gCO2" >>)),
      StoreOf(Str(<< "x" >>), None, None, None, None, None) }

InitConcFull ==
    /\ Init
    /\ store \in FullStores

\* the request of each thread carries its own measurement
RequestUpdateOwn(t) ==
    /\ RequestUpdate(t)
    /\ thr'[t].args.energy_used = t

NextConcFull ==
    \E t \in Threads :
       \/ ServerConstruct(t)
       \/ RequestUpdateOwn(t)
       \/ Body(t)
       \/ SaveEval(t)
       \/ SaveSet(t)
       \/ LoadGet(t)
       \/ LoadAssign(t)
       \/ LoadRaise(t)
       \/ LoadTruncate(t)

SpecConcFull == InitConcFull /\ [][NextConcFull]_vars

\* ------------------------------------------------------------------------
\* One request to a simulation endpoint: the handler runs the simulation and
\* then records its result in the ledger
\* ------------------------------------------------------------------------
\* update_global_consumption(var): the arguments it gives update
UpdateCall(var) ==
    [ NoArgs EXCEPT !.energy_used = var.energy_used,
                    !.co2_emissions = var.co2_emissions ]

\* update_global_consumption_list(var): the arguments it gives update_list
UpdateListCallLast(var) ==
    [ NoArgs EXCEPT !.energy_used = CumulativeLast(var.energy_used_list),
                    !.co2_emissions = CumulativeLast(var.co2_emissions_list),
                    !.energy_used_list = var.energy_used_list,
                    !.co2_emissions_list = var.co2_emissions_list ]

UpdateListCall(var) ==
    [ NoArgs EXCEPT !.energy_used = var.cumulative_energy_used,
                    !.co2_emissions = var.cumulative_co2_emissions,
                    !.energy_used_list = var.energy_used_list,
                    !.co2_emissions_list = var.co2_emissions_list ]

\* the ledger operation op is called with arguments a
CallLedger(t, op, a) ==
    /\ ledger = "ready"
    /\ At(t, "idle")
    /\ ops < MaxOps
    /\ thr' = [thr EXCEPT ![t] = Enter(t, op, a)]
    /\ hist' = [AtStart(hist, t) EXCEPT
                            !.sum_e = @ + a.energy_used,
                            !.sum_c = @ + a.co2_emissions,
                            !.cat_e = @ \o (IF op = "update"
                                            THEN << a.energy_used >>
                                            ELSE a.energy_used_list),
                            !.cat_c = @ \o (IF op = "update"
                                            THEN << a.co2_emissions >>
                                            ELSE a.co2_emissions_list)]
    /\ ops' = ops + 1
    /\ UNCHANGED << store, ledger, defaultValues, global_consumption >>

\* a request reaches one of the two handlers
ApiReceive ==
    /\ ledger = "ready"
    /\ AllIdle
    /\ sim.pc = "idle"
    /\ sim.status = "none"
    /\ sim' = [ sim EXCEPT !.status = "received" ]
    /\ hist' = AtStart(hist, MainThread)
    /\ UNCHANGED << store, ledger, defaultValues, global_consumption, thr, ops >>

\* the handler of /cable_temperature_consumption_simulation calls the window
ApiWindow ==
    /\ sim.status = "received"
    /\ SimRunWindow

\* the handler of /cable_temperature_consumption_simulation_list calls the
\* series
ApiSeries ==
    /\ sim.status = "received"
    /\ SimRunSeries

\* the window returned: update_global_consumption(res)
HandlerUpdate ==
    /\ sim.status = "received"
    /\ sim.pc = "done"
    /\ sim.entry = "window"
    /\ CallLedger(MainThread, "update", UpdateCall(sim.res))
    /\ sim' = [ sim EXCEPT !.status = "recording" ]

\* the series returned: update_global_consumption_list(res)
HandlerUpdateList ==
    /\ sim.status = "received"
    /\ sim.pc = "done"
    /\ sim.entry = "series"
    /\ CallLedger(MainThread, "update_list", UpdateListCall(sim.series))
    /\ sim' = [ sim EXCEPT !.status = "recording" ]

\* the ledger operation returned: return res
HandlerReturn ==
    /\ sim.status = "recording"
    /\ At(MainThread, "idle")
    /\ sim' = [ sim EXCEPT !.status = IF thr[MainThread].outcome = "ok"
                                      THEN "ok" ELSE "bad_request" ]
    /\ UNCHANGED Ledger

\* the simulation raised: except Exception, HTTPException(status_code=400)
HandlerError ==
    /\ sim.status = "received"
    /\ sim.pc = "raised"
    /\ sim' = [ sim EXCEPT !.status = "bad_request" ]
    /\ UNCHANGED Ledger

\* the server starts on a store a ledger wrote
ApiStores ==
    { StoreOf(Str(FloatToStr(55)), Str(FloatToStr(45)),
              Str(EncodeList(Ramp(HistoryMax))),
              Str(EncodeList(Ramp(HistoryMax - 1))),
              Str(<< "Wh" >>), Str(<< "gCO2" >>)) }

InitApi ==
    /\ Init
    /\ store \in ApiStores

NextApi ==
    \/ ServerConstruct(MainThread)
    \/ Body(MainThread)
    \/ SaveEval(MainThread)
    \/ SaveSet(MainThread)
    \/ LoadGet(MainThread)
    \/ LoadAssign(MainThread)
    \/ LoadTruncate(MainThread)
    \/ ApiReceive
    \/ ApiWindow
    \/ ApiSeries
    \/ SimNextWindow
    \/ SimSeriesReturn
    \/ WStart
    \/ WStartFault
    \/ WIntegrate
    \/ WIntegrateRaise
    \/ WIntegrateFault
    \/ WStop
    \/ WReturn
    \/ WReturnFault
    \/ WExcept
    \/ SimAppend
    \/ HandlerUpdate
    \/ HandlerUpdateList
    \/ HandlerReturn
    \/ HandlerError

SpecApi == InitApi /\ [][NextApi]_vars

\* ------------------------------------------------------------------------
\* Properties of the ledger when requests are served one at a time (Spec)
\* ------------------------------------------------------------------------
Main == thr[MainThread]

\* the ledger exists and its last operation has returned
Completed == ledger = "ready" /\ AllIdle /\ Main.outcome = "ok"

CompletedOp(op) == Completed /\ Main.op = op

\* C1: after every completed ledger operation (construction, update,
\* update_list, reset) both history lists hold at most 10 entries, whatever
\* was stored before construction and however long the lists of update_list.
C1_HistoryBounded ==
    Completed => /\ Len(energy_used_list) <= HistoryMax
                 /\ Len(co2_emissions_list) <= HistoryMax

\* an update_list with an 11-entry list has completed on a full history
C1_Witness ==
    /\ CompletedOp("update_list")
    /\ Len(Main.args.energy_used_list) > HistoryMax
    /\ Len(hist.pre.energy_used_list) = HistoryMax
    /\ Len(energy_used_list) = HistoryMax

\* C2: both totals equal the total at the last construction or reset plus the
\* sum of every delta applied since; after update(e, c) they are the previous
\* totals plus e and plus c; entries dropped from the history stay counted.
C2_TotalsAreRunningSums ==
    /\ Completed => /\ global_consumption.energy_used = hist.sum_e
                    /\ global_consumption.co2_emissions = hist.sum_c
    /\ CompletedOp("update") =>
          /\ global_consumption.energy_used =
                 hist.pre.energy_used + Main.args.energy_used
          /\ global_consumption.co2_emissions =
                 hist.pre.co2_emissions + Main.args.co2_emissions

\* two updates have completed, the second on a full history: an entry was
\* dropped and the total is no longer the sum of the history
C2_Witness ==
    /\ CompletedOp("update")
    /\ ops >= 2
    /\ Len(hist.cat_e) > HistoryMax
    /\ hist.sum_e > hist.pre.energy_used
    /\ global_consumption.energy_used # SeqSum(energy_used_list)

\* C3: each history list is the last min(10, n) entries of the concatenation,
\* in the order applied, of the history at the last construction or reset, of
\* the deltas appended by update and of the lists appended by update_list.
C3_HistoryIsTailOfAppends ==
    Completed => /\ energy_used_list = LastN(hist.cat_e, HistoryMax)
                 /\ co2_emissions_list = LastN(hist.cat_c, HistoryMax)

\* an update_list and an update have completed on a ledger constructed from an
\* empty store: the history is extended, and with 12 entries appended to the
\* empty history the two oldest are dropped
C3_Witness ==
    /\ CompletedOp("update")
    /\ ops = 2
    /\ Len(hist.cat_e) = HistoryMax + 2
    /\ Len(hist.cat_c) = 4
    /\ energy_used_list = SubSeq(hist.cat_e, 3, HistoryMax + 2)
    /\ co2_emissions_list = hist.cat_c

\* C4: update_list(E, C, list_e, list_c) increases the energy total by E and
\* the carbon total by C, whatever the lists hold.
C4_UpdateListAddsAggregates ==
    CompletedOp("update_list") =>
       /\ global_consumption.energy_used =
              hist.pre.energy_used + Main.args.energy_used
       /\ global_consumption.co2_emissions =
              hist.pre.co2_emissions + Main.args.co2_emissions

\* an update_list has completed whose lists differ in length and do not sum to
\* its totals
C4_Witness ==
    /\ CompletedOp("update_list")
    /\ SeqSum(Main.args.energy_used_list) # Main.args.energy_used
    /\ SeqSum(Main.args.co2_emissions_list) # Main.args.co2_emissions
    /\ Len(Main.args.energy_used_list) # Len(Main.args.co2_emissions_list)
    /\ global_consumption.energy_used > Main.args.energy_used

\* what read() returns after a reset of a ledger with these units
ResetSnapshot(ue, uc) ==
    [ energy_used |-> 0, energy_used_list |-> << >>, energy_used_unit |-> ue,
      co2_emissions |-> 0, co2_emissions_list |-> << >>,
      co2_emissions_unit |-> uc ]

\* C5: after reset() read() returns zero totals and empty histories, the two
\* units being those before the reset; a reset applied to the state a reset
\* left changes neither the ledger nor the store.
C5_ResetYieldsDefaults ==
    CompletedOp("reset") =>
       /\ Read = ResetSnapshot(hist.pre.energy_used_unit,
                               hist.pre.co2_emissions_unit)
       /\ hist.pre = ResetSnapshot(hist.pre.energy_used_unit,
                                   hist.pre.co2_emissions_unit)
              => Read = hist.pre /\ store = hist.pre_store

\* a reset has completed on a ledger with non-zero totals and histories
C5_Witness ==
    /\ CompletedOp("reset")
    /\ hist.pre.energy_used > 0
    /\ hist.pre.co2_emissions > 0
    /\ Len(hist.pre.energy_used_list) > 0
    /\ Len(hist.pre.co2_emissions_list) > 0

\* decoding the encoding of l gives l back
RoundTrip(l) ==
    /\ ListParses(Str(EncodeList(l)))
    /\ DecodeList(Str(EncodeList(l))) = l

\* C6: a ledger constructed from the store a previous ledger left returns the
\* snapshot the previous ledger returned; encoding a history and decoding it
\* gives the history back; an empty or absent string decodes to no entries.
C6_DurableAcrossRestart ==
    /\ (CompletedOp("init") /\ hist.restarted) => Read = hist.old
    /\ Completed => /\ RoundTrip(energy_used_list)
                    /\ RoundTrip(co2_emissions_list)
                    /\ RoundTrip(hist.cat_e)
                    /\ DecodeList(None) = << >>
                    /\ DecodeList(Str(<< >>)) = << >>

\* a ledger was constructed again after an operation left non-zero totals and
\* histories, with other unit arguments than the stored units
C6_Witness ==
    /\ CompletedOp("init")
    /\ hist.restarted
    /\ ops >= 2
    /\ hist.old.energy_used > 0
    /\ Len(hist.old.energy_used_list) > 1
    /\ Len(hist.old.co2_emissions_list) > 1
    /\ Main.args.energy_used_unit # hist.old.energy_used_unit

\* C7: load() never raises on stored data: an absent or unparsable value is
\* replaced by its default.
C7_LoadNeverRaises ==
    /\ ledger # "failed"
    /\ \A t \in Threads : thr[t].outcome # "ValueError"

\* the stored history as the list comprehension of _load_from_redis reads it
Stored(st, key) == IF ListParses(st[key]) THEN DecodeList(st[key]) ELSE << >>

\* C8: when load() completes each stored history is the last 10 entries of
\* the history stored when it began, and each of the six stored keys is the
\* encoding of the in-memory attribute.
C8_LoadSelfHealing ==
    Completed =>
       /\ ListParses(store.energy_used_list)
       /\ ListParses(store.co2_emissions_list)
       /\ Stored(store, "energy_used_list") =
              LastN(Stored(hist.load0[MainThread], "energy_used_list"),
                    HistoryMax)
       /\ Stored(store, "co2_emissions_list") =
              LastN(Stored(hist.load0[MainThread], "co2_emissions_list"),
                    HistoryMax)
       /\ \A k \in 1..6 :
             store[Keys[k]] =
                 Str(SavedValue(k, global_consumption, defaultValues))

\* a construction has completed on a store whose histories held 12 and 11
\* entries
C8_Witness ==
    /\ CompletedOp("init")
    /\ Len(Stored(hist.load0[MainThread], "energy_used_list")) = HistoryMax + 2
    /\ Len(Stored(hist.load0[MainThread], "co2_emissions_list")) = HistoryMax + 1
    /\ Len(Stored(store, "energy_used_list")) = HistoryMax

\* the call that has just returned is update or update_list
CompletedUpdate == CompletedOp("update") \/ CompletedOp("update_list")

\* the units the construction gives the ledger: for each the one the store
\* held when it was loaded, the argument of the constructor when the store
\* held none or an empty one
UnitsAtConstruction ==
    LET held == hist.load0[MainThread]
        Given(v, argument) ==
            IF v.nil \/ v.s = << >> THEN argument ELSE v.s
    IN  << Given(held.energy_used_unit, defaultValues.energy_used_unit),
           Given(held.co2_emissions_unit, defaultValues.co2_emissions_unit) >>

\* C19, as stated: the two units of a constructed ledger are the arguments
\* of its constructor, and update and update_list leave them as they were
C19_UnitsAreConstructorArguments ==
    /\ Completed =>
           /\ Read.energy_used_unit = defaultValues.energy_used_unit
           /\ Read.co2_emissions_unit = defaultValues.co2_emissions_unit
    /\ CompletedUpdate =>
           /\ Read.energy_used_unit = hist.pre.energy_used_unit
           /\ Read.co2_emissions_unit = hist.pre.co2_emissions_unit

\* C19, amended: construction fixes each unit to the one the store holds, or
\* to the argument of the constructor when the store holds none, and every
\* update and update_list call returns with the two units read() gave before it
C19_UnitsFixedAtConstruction ==
    /\ CompletedOp("init") =>
           << Read.energy_used_unit, Read.co2_emissions_unit >> =
               UnitsAtConstruction
    /\ CompletedUpdate =>
           /\ Read.energy_used_unit = hist.pre.energy_used_unit
           /\ Read.co2_emissions_unit = hist.pre.co2_emissions_unit

C19_Witness ==
    /\ CompletedUpdate
    /\ ops = 2
    /\ Read.energy_used_unit = << "Wh" >>
    /\ defaultValues.energy_used_unit = << "kWh" >>
    /\ Read.co2_emissions_unit = defaultValues.co2_emissions_unit
    /\ hist.pre.energy_used_unit = << "Wh" >>

\* C20: from one completed operation to the next the two totals never
\* decrease, reset apart: update and update_list return with totals at least
\* those before the call, and so does a construction from the store the
\* ledger left
C20_TotalsNeverDecrease ==
    /\ CompletedUpdate =>
           /\ Read.energy_used >= hist.pre.energy_used
           /\ Read.co2_emissions >= hist.pre.co2_emissions
    /\ (CompletedOp("init") /\ hist.restarted) =>
           /\ Read.energy_used >= hist.old.energy_used
           /\ Read.co2_emissions >= hist.old.co2_emissions

C20_Witness ==
    /\ CompletedOp("update")
    /\ ops = 2
    /\ hist.pre.energy_used > 0
    /\ Read.energy_used > hist.pre.energy_used
    /\ Read.co2_emissions = hist.pre.co2_emissions

\* the energy total of a store
StoredTotal(st) ==
    IF ~st.energy_used.nil /\ IsFloatStr(st.energy_used.s)
    THEN ParseFloat(st.energy_used.s)
    ELSE default_energy_used

\* the thread is in the _save_to_redis that _save calls, at a statement after
\* statement j: the keys of statements 1 to j have been written
Persisting == Main.op \in {"update", "update_list", "reset"}
              /\ Main.caller = "_save"
              /\ Main.pc \in {"save_eval", "save_set"}

\* C23: the persist step writes one key at a time in the order energy total,
\* carbon total, energy history, carbon history, energy unit, carbon unit:
\* while it runs the store holds the new value of every key up to the last
\* one written and still the value from before the operation of every later
\* key, so the total may include a delta that the stored history lacks
C23_PersistWritesInOrder ==
    Persisting =>
        LET k == Main.k
            old == hist.pre_store
        IN  /\ store.energy_used =
                  IF k > 1 THEN Str(FloatToStr(Read.energy_used))
                  ELSE old.energy_used
            /\ store.co2_emissions =
                  IF k > 2 THEN Str(FloatToStr(Read.co2_emissions))
                  ELSE old.co2_emissions
            /\ store.energy_used_list =
                  IF k > 3 THEN Str(EncodeList(Read.energy_used_list))
                  ELSE old.energy_used_list
            /\ store.co2_emissions_list =
                  IF k > 4 THEN Str(EncodeList(Read.co2_emissions_list))
                  ELSE old.co2_emissions_list
            /\ store.energy_used_unit =
                  IF k > 5 THEN Str(Read.energy_used_unit)
                  ELSE old.energy_used_unit
            /\ store.co2_emissions_unit = old.co2_emissions_unit

\* the stored total includes the delta of the update, the stored history
\* does not hold it yet
C23_Witness ==
    /\ Persisting
    /\ Main.op = "update"
    /\ Main.k = 3
    /\ Main.args.energy_used > 0
    /\ StoredTotal(store) =
           StoredTotal(hist.pre_store) + Main.args.energy_used
    /\ store.energy_used_list = hist.pre_store.energy_used_list
    /\ Stored(store, "energy_used_list") # Read.energy_used_list

\* C24: after every completed operation each of the six stored keys decodes
\* to the in-memory attribute: the totals by float(), the histories by the
\* split on the separator, the units as they are
C24_StoreAgreesWithMemory ==
    Completed =>
        /\ \A key \in {"energy_used", "co2_emissions"} :
               ~store[key].nil /\ IsFloatStr(store[key].s)
        /\ ParseFloat(store.energy_used.s) = Read.energy_used
        /\ ParseFloat(store.co2_emissions.s) = Read.co2_emissions
        /\ ListParses(store.energy_used_list)
        /\ ListParses(store.co2_emissions_list)
        /\ DecodeList(store.energy_used_list) = Read.energy_used_list
        /\ DecodeList(store.co2_emissions_list) = Read.co2_emissions_list
        /\ store.energy_used_unit = Str(Read.energy_used_unit)
        /\ store.co2_emissions_unit = Str(Read.co2_emissions_unit)

C24_Witness ==
    /\ CompletedOp("update_list")
    /\ Len(hist.cat_e) > HistoryMax
    /\ Len(Read.energy_used_list) = HistoryMax
    /\ Read.energy_used # Read.co2_emissions
    /\ DecodeList(store.energy_used_list) = Read.energy_used_list

\* the value of a unit key the store held when the constructor loaded it
HeldUnit(key) == hist.load0[MainThread][key]

\* C30: a construction takes each unit from the store when the store holds a
\* non-empty one and from the argument of the constructor only otherwise,
\* and when it has completed the store holds the unit the ledger reads
C30_StoredUnitTakesPrecedence ==
    CompletedOp("init") =>
        /\ (~HeldUnit("energy_used_unit").nil
                /\ HeldUnit("energy_used_unit").s # << >>) =>
               Read.energy_used_unit = HeldUnit("energy_used_unit").s
        /\ (HeldUnit("energy_used_unit").nil
                \/ HeldUnit("energy_used_unit").s = << >>) =>
               Read.energy_used_unit = Main.args.energy_used_unit
        /\ (~HeldUnit("co2_emissions_unit").nil
                /\ HeldUnit("co2_emissions_unit").s # << >>) =>
               Read.co2_emissions_unit = HeldUnit("co2_emissions_unit").s
        /\ (HeldUnit("co2_emissions_unit").nil
                \/ HeldUnit("co2_emissions_unit").s = << >>) =>
               Read.co2_emissions_unit = Main.args.co2_emissions_unit
        /\ store.energy_used_unit = Str(Read.energy_used_unit)
        /\ store.co2_emissions_unit = Str(Read.co2_emissions_unit)

\* stored "Wh" wins over the argument "kWh"; the carbon unit, absent from the
\* store, is the argument
C30_Witness ==
    /\ CompletedOp("init")
    /\ HeldUnit("energy_used_unit") = Str(<< "Wh" >>)
    /\ Main.args.energy_used_unit = << "kWh" >>
    /\ Read.energy_used_unit = << "Wh" >>
    /\ HeldUnit("co2_emissions_unit") = None
    /\ Read.co2_emissions_unit = << "kgCO2" >>
    /\ store.co2_emissions_unit = Str(<< "kgCO2" >>)

\* ------------------------------------------------------------------------
\* Properties of the ledger when a write to the store fails (SpecFail)
\* ------------------------------------------------------------------------
\* a write of the last operation called has raised and the operation has ended
Faulted ==
    /\ hist.faults > 0
    /\ hist.fault_ops = ops
    /\ Main.pc = "idle"

Mutating == {"update", "update_list", "reset"}

\* C21: when redis_client.set raises during update, update_list or reset the
\* operation ends with that error, not with success, and no key is written
\* after the error: the write is not tried again and the later keys are not
\* written
C21_StoreErrorPropagates ==
    (Faulted /\ Main.op \in Mutating) =>
        /\ Main.outcome = "RedisError"
        /\ store = hist.fault_store

C21_Witness ==
    /\ Faulted
    /\ Main.op = "update"
    /\ Main.outcome = "RedisError"
    /\ store.energy_used # hist.pre_store.energy_used
    /\ store.energy_used_list = hist.pre_store.energy_used_list

\* C22: an operation loads the state from the store before it mutates it:
\* update returns with the energy total the store held when it was called
\* plus the delta
C22_MutationOnStoredState ==
    CompletedOp("update") =>
        Read.energy_used = StoredTotal(hist.pre_store) + Main.args.energy_used

\* C25: an update, update_list or reset that failed in a write leaves in
\* memory what read() returned before it was called
C25_FailedOperationLeavesMemory ==
    (Faulted /\ Main.op \in Mutating /\ Main.outcome = "RedisError") =>
        Read = hist.pre

\* C26: the two default history lists are empty in every state
C26_DefaultHistoriesStayEmpty ==
    /\ defaultValues.energy_used_list = << >>
    /\ defaultValues.co2_emissions_list = << >>

\* ------------------------------------------------------------------------
\* Properties of two update requests served concurrently (SpecConc)
\* ------------------------------------------------------------------------
\* both requests have run update to its end
BothUpdated ==
    /\ ledger = "ready"
    /\ AllIdle
    /\ \A t \in Threads : thr[t].op = "update" /\ thr[t].outcome = "ok"

\* C28: when the concurrent operations have all completed, the two histories
\* in memory and the two histories in the store hold at most 10 entries
C28_HistoriesBoundedWhenAllDone ==
    BothUpdated =>
        /\ Len(Read.energy_used_list) <= HistoryMax
        /\ Len(Read.co2_emissions_list) <= HistoryMax
        /\ Len(Stored(store, "energy_used_list")) <= HistoryMax
        /\ Len(Stored(store, "co2_emissions_list")) <= HistoryMax

\* the energy total the store holds
StoredEnergy ==
    IF ~store.energy_used.nil /\ IsFloatStr(store.energy_used.s)
    THEN ParseFloat(store.energy_used.s)
    ELSE 0 - 1

\* the energy totals left when both deltas, or only one of them, are counted
TotalsWithLoss ==
    { hist.sum_e - d : d \in {0} \cup { thr[t].args.energy_used : t \in Threads } }

\* C9: two update calls on the shared ledger lose an update only by
\* interleaving: when both have completed, the energy total in memory and the
\* one in the store each count both deltas or are short of exactly one of
\* them, and when the two calls did not overlap nothing is lost, the total is
\* previous_total + e1 + e2 and the history holds both extensions.  The
\* witness is the interleaving where the total, in memory and in the store, is
\* less than previous_total + e1 + e2 and one extension of the history is
\* overwritten
C9_AtMostOneUpdateLost ==
    BothUpdated =>
        /\ Read.energy_used \in TotalsWithLoss
        /\ StoredEnergy \in TotalsWithLoss
        /\ ~hist.overlap =>
             /\ Read.energy_used = hist.sum_e
             /\ StoredEnergy = hist.sum_e
             /\ Read.energy_used_list = LastN(hist.cat_e, HistoryMax)
             /\ Stored(store, "energy_used_list") = LastN(hist.cat_e, HistoryMax)

C9_Witness ==
    /\ BothUpdated
    /\ hist.overlap
    /\ \A t \in Threads : thr[t].args.energy_used > 0
    /\ Read.energy_used < hist.sum_e
    /\ StoredEnergy < hist.sum_e
    /\ Len(Read.energy_used_list) < Len(hist.cat_e)
    /\ Len(Stored(store, "energy_used_list")) < Len(hist.cat_e)

\* ------------------------------------------------------------------------
\* Properties of the simulation session (SpecSim)
\* ------------------------------------------------------------------------
\* C10: in a series the first window is integrated from the initial
\* temperature the caller gave, every later window from the final temperature
\* the window before it returned, and every window gets the ambient
\* temperature, wind speed, current, duration and step of the caller
C10_SeriesChainsWindows ==
    sim.entry = "series" =>
        \A k \in 1..Len(sim.calls) :
            /\ sim.calls[k].cable_temperature_initial =
                   IF k = 1 THEN sim.args.cable_temperature_initial
                   ELSE sim.final_temperature_list[k - 1]
            /\ k - 1 <= Len(sim.final_temperature_list)
            /\ sim.calls[k].ambient_temperature = sim.args.ambient_temperature
            /\ sim.calls[k].wind_speed = sim.args.wind_speed
            /\ sim.calls[k].current_intensity = sim.args.current_intensity
            /\ sim.calls[k].simulation_duration = sim.args.simulation_duration
            /\ sim.calls[k].time_step = sim.args.time_step

C10_Witness ==
    /\ sim.entry = "series"
    /\ sim.pc = "done"
    /\ Len(sim.calls) = 3
    /\ Len(sim.series.final_temperature_list) = 3
    /\ sim.calls[2].cable_temperature_initial # sim.calls[1].cable_temperature_initial
    /\ sim.calls[3].cable_temperature_initial # sim.calls[2].cable_temperature_initial

SeriesDone == sim.entry = "series" /\ sim.pc = "done"

WindowDone == sim.entry = "window" /\ sim.pc = "done"

\* C11: for N > 0 repetitions of a window of duration D > 0 a series that
\* returns holds N final temperatures, the k-th the result of the k-th window
\* run, N time points, the k-th equal to k * D, and N energy, carbon and
\* execution-time entries
C11_SeriesReturnsNWindows ==
    ( /\ SeriesDone
      /\ sim.args.number_of_repetition > 0
      /\ sim.args.simulation_duration > 0 ) =>
        LET N == sim.args.number_of_repetition
            r == sim.series
        IN  /\ Len(sim.calls) = N
            /\ Len(r.final_temperature_list) = N
            /\ Len(r.time_points_list) = N
            /\ Len(r.energy_used_list) = N
            /\ Len(r.co2_emissions_list) = N
            /\ Len(r.execution_time) = N
            /\ \A k \in 1..N :
                 /\ r.time_points_list[k] = k * sim.args.simulation_duration
                 /\ r.final_temperature_list[k] =
                        Integrate(sim.calls[k].cable_temperature_initial,
                                  sim.calls[k])

C11_Witness ==
    /\ SeriesDone
    /\ sim.args.number_of_repetition = 3
    /\ sim.args.simulation_duration = 2
    /\ sim.series.time_points_list = << 2, 4, 6 >>
    /\ sim.series.final_temperature_list[3] # sim.series.final_temperature_list[1]

\* C12: in every series returned the three cumulative figures are the sums of
\* the execution-time, energy and carbon lists returned with them
C12_CumulativeAreSums ==
    SeriesDone =>
        /\ sim.series.cumulative_execution_time =
               SeqSum(sim.series.execution_time)
        /\ sim.series.cumulative_energy_used =
               SeqSum(sim.series.energy_used_list)
        /\ sim.series.cumulative_co2_emissions =
               SeqSum(sim.series.co2_emissions_list)

C12_Witness ==
    /\ SeriesDone
    /\ sim.series.energy_used_list = << 2, 1, 2 >>
    /\ sim.series.co2_emissions_list = << 3, 1, 3 >>
    /\ sim.series.execution_time = << 1, 2, 2 >>
    /\ sim.series.cumulative_energy_used = 5
    /\ sim.series.cumulative_co2_emissions = 7
    /\ sim.series.cumulative_execution_time = 5

\* C13: a series asked with repetitions <= 0 or a window duration <= 0 never
\* returns a result and never runs a window
C13_SeriesRejectsNonPositive ==
    ( /\ sim.entry = "series"
      /\ \/ sim.args.number_of_repetition <= 0
         \/ sim.args.simulation_duration <= 0 ) =>
        /\ sim.pc # "done"
        /\ sim.calls = << >>

\* the call of a window or of a series has ended, or the series is between
\* two windows
BetweenWindows == sim.pc \in {"w_return", "append", "loop", "done", "raised"}

\* C14: a window that started the tracker has stopped it when it returns or
\* raises; when the integration fails the ValueError is raised with the
\* tracker stopped and the window adds no result
C14_TrackerStoppedOnExit ==
    /\ (BetweenWindows /\ sim.starts > 0) =>
           /\ sim.tracker = "stopped"
           /\ sim.stops >= sim.starts
    /\ (sim.pc = "raised" /\ sim.calls # << >>) =>
           /\ sim.outcome = "ValueError"
           /\ sim.series = NoSeries
           /\ Len(sim.final_temperature_list) < Len(sim.calls)

C14_Witness ==
    /\ sim.pc = "raised"
    /\ sim.entry = "series"
    /\ ~IntegrateRaises(sim.window)
    /\ sim.starts = 2
    /\ sim.stops = 2
    /\ sim.tracker = "stopped"

\* the request has been answered
Answered(status) == sim.status = status /\ Main.pc = "idle"

\* C29: a request records its simulation in the ledger only when the
\* simulation succeeded, and then once: a window by one update with the
\* window's energy and carbon, a series by one update_list with the sums and
\* the lists of the series; a request whose simulation failed, and a request
\* still simulating, leaves the ledger and the store as they were
C29_RecordedOnceOnSuccess ==
    /\ (sim.status = "received" \/ Answered("bad_request")) =>
           /\ ops = 0
           /\ Main.op = "init"
           /\ store = hist.pre_store
           /\ Read = hist.pre
    /\ (Answered("ok") /\ sim.entry = "window") =>
           /\ ops = 1
           /\ Main.op = "update"
           /\ Main.args.energy_used = sim.res.energy_used
           /\ Main.args.co2_emissions = sim.res.co2_emissions
           /\ Read.energy_used = hist.pre.energy_used + sim.res.energy_used
           /\ Read.co2_emissions =
                  hist.pre.co2_emissions + sim.res.co2_emissions
           /\ Read.energy_used_list =
                  LastN(hist.pre.energy_used_list \o << sim.res.energy_used >>,
                        HistoryMax)
           /\ Read.co2_emissions_list =
                  LastN(hist.pre.co2_emissions_list
                            \o << sim.res.co2_emissions >>, HistoryMax)
           /\ StoredTotal(store) = Read.energy_used
           /\ Stored(store, "energy_used_list") = Read.energy_used_list
    /\ (Answered("ok") /\ sim.entry = "series") =>
           /\ ops = 1
           /\ Main.op = "update_list"
           /\ Main.args.energy_used_list = sim.series.energy_used_list
           /\ Main.args.co2_emissions_list = sim.series.co2_emissions_list
           /\ Main.args.energy_used = SeqSum(sim.series.energy_used_list)
           /\ Main.args.co2_emissions =
                  SeqSum(sim.series.co2_emissions_list)
           /\ Read.energy_used =
                  hist.pre.energy_used + SeqSum(sim.series.energy_used_list)
           /\ Read.co2_emissions =
                  hist.pre.co2_emissions
                      + SeqSum(sim.series.co2_emissions_list)
           /\ Read.energy_used_list =
                  LastN(hist.pre.energy_used_list
                            \o sim.series.energy_used_list, HistoryMax)
           /\ Read.co2_emissions_list =
                  LastN(hist.pre.co2_emissions_list
                            \o sim.series.co2_emissions_list, HistoryMax)
           /\ StoredTotal(store) = Read.energy_used
           /\ Stored(store, "energy_used_list") = Read.energy_used_list

\* a series of two windows with different readings is recorded once
C29_Witness ==
    /\ Answered("ok")
    /\ sim.entry = "series"
    /\ sim.series.energy_used_list = << 1, 2 >>
    /\ Main.op = "update_list"
    /\ ops = 1
    /\ Read.energy_used = hist.pre.energy_used + 3
    /\ Len(hist.pre.energy_used_list) = HistoryMax

\* C27: stop() is called once for each start() of the tracker on every path
\* out of a window, never a second time and never without a start
C27_StopOncePerStart ==
    BetweenWindows => sim.stops = sim.starts

\* C15: when a window of a series fails the series ends there with the one
\* ValueError: the failed window is the last one started and no series, not
\* even the figures of the windows before it, is returned
C15_SeriesAbortsOnFailure ==
    (sim.entry = "series" /\ sim.outcome = "ValueError") =>
        /\ sim.pc = "raised"
        /\ sim.series = NoSeries
        /\ sim.calls # << >> =>
               Len(sim.calls) = Len(sim.final_temperature_list) + 1

C15_Witness ==
    /\ sim.entry = "series"
    /\ sim.pc = "raised"
    /\ sim.args.number_of_repetition = 3
    /\ Len(sim.calls) = 2
    /\ Len(sim.final_temperature_list) = 1

\* C16: a window asked with a duration <= 0, a step <= 0 or a current < 0 is
\* refused before anything is computed: the tracker is not started for it
C16_InvalidRejectedBeforeComputing ==
    (sim.entry = "window" /\ IntegrateRaises(sim.window)) => sim.starts = 0

\* the explicit solution after the whole duration, for a step that divides it
TemperatureAtDuration(a) ==
    Solve(a.cable_temperature_initial, a.simulation_duration \div a.time_step,
          a.time_step, a.ambient_temperature, a.wind_speed,
          a.current_intensity)

\* C17: the temperature a window returns is the temperature at simulated time
\* simulation_duration
C17_IntegrateReachesDuration ==
    WindowDone => sim.res.final_temperature = TemperatureAtDuration(sim.window)

Abs(x) == IF x < 0 THEN 0 - x ELSE x

\* C18: the final temperature of N chained windows of duration D is, within a
\* thousandth of a degree, the one of a single integration of duration N * D
C18_ChainingMatchesDirect ==
    (SeriesDone /\ sim.calls # << >>) =>
        LET N == Len(sim.calls)
            direct == [ sim.args EXCEPT !.simulation_duration = N * @ ]
        IN  Abs(sim.series.final_temperature_list[N]
                - Integrate(direct.cable_temperature_initial, direct)) <= 1

====
